---- MODULE Spec2Model ----
(***************************************************************************)
(* A model of the mosaic generator (js/mosaic.js, its client and its       *)
(* quantization worker).                                                   *)
(*                                                                         *)
(*   SpecLoader  one run of Mosaic.prototype.downloadLimitedItems with an  *)
(*               arbitrary item list, limit and iterator outcome           *)
(*   SpecCreate  passes of Mosaic.prototype.create on one canvas, driven   *)
(*               by the client (file change / resize); SpecCreateFair adds *)
(*               that a started tile fetch eventually loads, SpecPalette   *)
(*               is the same client with a zero, empty or negative colors  *)
(*               value                                                     *)
(*   SpecQuant   MosaicWorker.prototype.rgbToHex as a pure function        *)
(*                                                                         *)
(* JavaScript arrays are 0-based: an index idx of the source is element    *)
(* idx + 1 of the sequence that models the array.                          *)
(***************************************************************************)
EXTENDS Integers, Sequences, FiniteSets, TLC

VARIABLES
    dl,        \* SpecLoader: the closure of one downloadLimitedItems run
    canvas,    \* SpecCreate: the client's canvas (size and tiles drawn on it)
    pass,      \* SpecCreate: the closure of each Mosaic.create invocation
    fileInput, \* SpecCreate: the client's last selected file, <<>> when none
    quant,     \* SpecQuant: the arguments and the result of one rgbToHex call
    pm,        \* SpecPixelMap: one getPixelMap call and its worker
    geom       \* SpecGeometry: the sizes and tile positions of one create

vars == <<dl, canvas, pass, fileInput, quant, pm, geom>>

(***************************************************************************)
(* Bounds of the model.                                                    *)
(***************************************************************************)
MaxItems == 3      \* longest item list handed to the loader in SpecLoader
MaxLimit == 2      \* largest limit in SpecLoader

LoaderItems == {"a", "b"}
Errors == {"E1", "E2"}

(***************************************************************************)
(* JavaScript values.                                                      *)
(***************************************************************************)
Null == "null"
False == "false"
Undefined == "undefined"

\* `if (err)': null, false and undefined are falsy, an error object is truthy.
Truthy(v) == v \notin {Null, False, Undefined}

\* An operator's argument is evaluated wherever the operator uses it.
\* Call(F, x) evaluates x once and applies F to its value, as a JavaScript
\* call does.
Call(F(_), x) == CHOOSE r \in {F(v) : v \in {x}} : TRUE
Call2(F(_, _), x, y) == CHOOSE r \in {F(v, w) : v \in {x}, w \in {y}} : TRUE

\* The value an iterator hands to its callback for an item: the Image whose
\* src is 'color/' + color in create; any value determined by the item
\* elsewhere.
Fetched(item) == "color/" \o item

(***************************************************************************)
(* once(fn): f.called guards the single call of fn.  cbLog records the     *)
(* argument lists fn itself was applied to, attempts every call of f.      *)
(***************************************************************************)
once_unguarded(d, args) ==
    [d EXCEPT !.called = TRUE,
              !.attempts = @ + 1,
              !.cbLog = Append(@, args)]

once(d, args) ==
    IF d.called
    THEN [d EXCEPT !.attempts = @ + 1]
    ELSE [d EXCEPT !.called = TRUE,
                   !.attempts = @ + 1,
                   !.cbLog = Append(@, args)]

(***************************************************************************)
(* downloadLimitedItems: push, flush, abort and the callback handed to the *)
(* iterator.                                                               *)
(***************************************************************************)
\* push(): idx = i++, queued += 1, iterator(arr[idx], cb).  The iterator
\* starts a fetch whose callback is outstanding until it is called.
push(d) ==
    [d EXCEPT !.i = @ + 1,
              !.queued = @ + 1,
              !.started = Append(@, d.i),
              !.pending = @ \cup {d.i}]

\* the while loop of flush()
RECURSIVE flushLoop_noLimit(_)
flushLoop_noLimit(d) ==
    IF d.aborted THEN d
    ELSE IF d.i = Len(d.arr) THEN d
    ELSE Call(flushLoop_noLimit, push(d))

RECURSIVE flushLoop_ignoreAbort(_)
flushLoop_ignoreAbort(d) ==
    IF d.queued < d.limit
    THEN IF d.i = Len(d.arr) THEN d
         ELSE Call(flushLoop_ignoreAbort, push(d))
    ELSE d

\* an if in place of the while: one item per call of flush
flushLoop_once(d) ==
    IF d.queued < d.limit /\ ~d.aborted /\ d.i # Len(d.arr)
    THEN push(d)
    ELSE d

RECURSIVE flushLoop(_)
flushLoop(d) ==
    IF d.queued < d.limit
    THEN IF d.aborted THEN d
         ELSE IF d.i = Len(d.arr) THEN d
         ELSE Call(flushLoop, push(d))
    ELSE d

flush(d) ==
    IF d.complete = Len(d.arr)
    THEN once(d, <<Null, d.results>>)
    ELSE flushLoop(d)

abort(d, err) ==
    once([d EXCEPT !.aborted = TRUE], <<err>>)

\* function (err, result) { ... } of push, called for item idx
storeResult_arrivalOrder(d, idx, result) ==
    [d EXCEPT !.results[d.complete + 1] = result]

storeResult(d, idx, result) ==
    [d EXCEPT !.results[idx + 1] = result]

iteratorCallback(d, idx, err, result) ==
    LET e == [d EXCEPT !.pending = @ \ {idx},
                       !.replies = Append(@, [idx |-> idx, err |-> err])]
    IN  IF Truthy(err)
        THEN abort(e, err)
        ELSE Call(flush, [storeResult(e, idx, result) EXCEPT
                              !.complete = @ + 1,
                              !.queued = @ - 1])

\* the variables of downloadLimitedItems before flush() is called (lines
\* 141-156); started, pending and replies record what the iterator was asked
\* and what it answered.
newLoader(a, lim) ==
    [arr      |-> a,
     limit    |-> lim,
     complete |-> 0,
     aborted  |-> FALSE,
     results  |-> [r \in 1..Len(a) |-> Null],
     queued   |-> 0,
     i        |-> 0,
     called   |-> FALSE,
     attempts |-> 0,
     cbLog    |-> <<>>,
     started  |-> <<>>,
     pending  |-> {},
     replies  |-> <<>>]

\* downloadLimitedItems(arr, limit, iterator, callback) up to its return
downloadLimitedItems(a, lim) == Call(flush, newLoader(a, lim))

(***************************************************************************)
(* The quantizer (MosaicWorker).  A JavaScript number is modelled as       *)
(* [nan, v]: NaN, or the integer v.  The source computes in IEEE doubles;  *)
(* for |colors| <= 50 and components in 0..255 the doubles                 *)
(* floor(c / 255 * colors) and floor(k / colors * 255) equal the exact     *)
(* floors computed here.                                                   *)
(***************************************************************************)
NaN == [nan |-> TRUE, v |-> 0]
Num(n) == [nan |-> FALSE, v |-> n]

\* Math.floor(a / b) for integers a and b, b # 0
FloorDiv(a, b) == IF b > 0 THEN a \div b ELSE (-a) \div (-b)
\* Math.ceil(a / b) for integers a and b > 0
CeilDiv(a, b) == -((-a) \div b)

HexDigit == <<"0", "1", "2", "3", "4", "5", "6", "7",
              "8", "9", "a", "b", "c", "d", "e", "f">>

\* Number.prototype.toString(16)
RECURSIVE digits16(_)
digits16(n) ==
    IF n < 16 THEN HexDigit[n + 1]
    ELSE digits16(n \div 16) \o HexDigit[(n % 16) + 1]

toString16(component) ==
    IF component.nan THEN "NaN"
    ELSE IF component.v < 0 THEN "-" \o digits16(-component.v)
    ELSE digits16(component.v)

convertToHex(component) ==
    LET hex == toString16(component)
    IN  IF Len(hex) = 1 THEN "0" \o hex ELSE hex

\* Math.floor((Math.floor(c / 255 * colors) / colors) * 255); with colors = 0
\* the inner quotient is 0 / 0.
reduceChannel(c, colors) ==
    IF colors = 0 THEN NaN
    ELSE Num(FloorDiv(FloorDiv(c * colors, 255) * 255, colors))

rgbToHex(r, g, b, colors) ==
    convertToHex(reduceChannel(r, colors)) \o
    convertToHex(reduceChannel(g, colors)) \o
    convertToHex(reduceChannel(b, colors))

\* MosaicWorker.prototype.getColorMap; img is the pixel buffer, one <<r, g, b>>
\* per four bytes of img.data
getColorMap(img, colors) ==
    [k \in 1..Len(img) |-> rgbToHex(img[k][1], img[k][2], img[k][3], colors)]

(***************************************************************************)
(* Mosaic: the helpers of create.                                          *)
(***************************************************************************)
TILE_WIDTH == 8
TILE_HEIGHT == 8
TileLimit == 16       \* the limit create hands to downloadLimitedItems
DefaultColors == 16   \* colors || 16
PaddingX == 64        \* renderCanvas: canvasContainer.width - 64
PaddingY == 92        \* renderCanvas: canvasContainer.height - 92

\* Array.prototype.indexOf (0-based, -1 when absent).  Two pixel objects of a
\* pixel map are the same object exactly when they are the same entry, and
\* entries differ in (x, y), so strict equality is equality of the records.
indexOf(self, value) ==
    IF \E k \in 1..Len(self) : self[k] = value
    THEN (CHOOSE k \in 1..Len(self) :
             self[k] = value /\ \A m \in 1..(k - 1) : self[m] # value) - 1
    ELSE -1

unique(value, index, self) == indexOf(self, value) = index

\* pixelMap.filter(unique)
filterUnique(self) ==
    LET F[k \in 0..Len(self)] ==
            IF k = 0 THEN <<>>
            ELSE IF unique(self[k], k - 1, self)
                 THEN Append(F[k - 1], self[k])
                 ELSE F[k - 1]
    IN  F[Len(self)]

findCurrentRow_from(pixelMap, currentRowIndex) ==
    SelectSeq(pixelMap, LAMBDA pixel : pixel.y >= currentRowIndex)

findCurrentRow(pixelMap, currentRowIndex) ==
    SelectSeq(pixelMap, LAMBDA pixel : pixel.y = currentRowIndex)

\* some in place of the negated some: one downloaded tile is enough
currentRowDownloaded_some(currentRow, completeTiles) ==
    \/ Len(currentRow) = 0
    \/ \E k \in 1..Len(currentRow) :
          /\ currentRow[k].color \in DOMAIN completeTiles
          /\ completeTiles[currentRow[k].color].complete

currentRowDownloaded(currentRow, completeTiles) ==
    ~ \E k \in 1..Len(currentRow) :
        ~ (/\ currentRow[k].color \in DOMAIN completeTiles
           /\ completeTiles[currentRow[k].color].complete)

\* The arithmetic of getSize is in doubles: aspectRatio = image.width /
\* image.height is rounded, and so are width / aspectRatio and height *
\* aspectRatio.  A rounded value lies within 2^-50 of the exact one, which
\* matters to < height and to Math.floor only when the exact value is an
\* integer and the double is below it.  For image sides up to 8 and canvas
\* sides up to 36, height * aspectRatio is never below, and width /
\* aspectRatio is below for the <<width, image.width, image.height>> of
\* QuotientBelow: 7 / 3 rounds up to 2.3333333333333335 and
\* 35 / 2.3333333333333335 is 14.999999999999998; 7 / 6 rounds up to
\* 1.1666666666666667 and 35 / 1.1666666666666667 is 29.999999999999996.
QuotientBelow == {<<35, 7, 3>>, <<35, 7, 6>>}

getSize(image, cv) ==
    LET below == <<cv.width, image.width, image.height>> \in QuotientBelow
        quotient == (cv.width * image.height) \div image.width
        less == IF below
                THEN quotient <= cv.height
                ELSE cv.width * image.height < cv.height * image.width
    IN  IF less
        THEN [x |-> cv.width, y |-> IF below THEN quotient - 1 ELSE quotient]
        ELSE [x |-> (cv.height * image.width) \div image.height, y |-> cv.height]

\* Math.floor(...) + 1 in place of Math.ceil
getDimensions_floorPlusOne(size) ==
    [x |-> (size.x \div TILE_WIDTH) + 1, y |-> (size.y \div TILE_HEIGHT) + 1]

getDimensions(size) ==
    [x |-> CeilDiv(size.x, TILE_WIDTH), y |-> CeilDiv(size.y, TILE_HEIGHT)]

\* x and y exchanged
getPixelMap_columnMajor(size, tileColors) ==
    [k \in 1..Len(tileColors) |->
        [color |-> tileColors[k],
         x |-> ((k - 1) \div size.x) + 1,
         y |-> ((k - 1) % size.x) + 1]]

\* the .then of getPixelMap: tileColors.map(function (color, i) { ... })
getPixelMap(size, tileColors) ==
    [k \in 1..Len(tileColors) |->
        [color |-> tileColors[k],
         x |-> ((k - 1) % size.x) + 1,
         y |-> ((k - 1) \div size.x) + 1]]

(***************************************************************************)
(* SpecLoader                                                              *)
(***************************************************************************)
ItemLists == UNION {[1..n -> LoaderItems] : n \in 0..MaxItems}

IdleCreate ==
    /\ canvas = [width |-> 300, height |-> 150, tiles |-> {}]
    /\ pass = <<>>
    /\ fileInput = <<>>

IdleQuant == quant = [r |-> 0, g |-> 0, b |-> 0, colors |-> 1, key |-> ""]

IdlePixelMap ==
    pm = [phase |-> "called", size |-> [x |-> 0, y |-> 0], img |-> <<>>,
          colors |-> 1, hasWorker |-> TRUE, toWorker |-> <<>>, toMain |-> <<>>,
          tileColors |-> <<>>, pixelMap |-> <<>>]

IdleGeometry ==
    geom = [phase |-> "decoded",
            image |-> [width |-> 1, height |-> 1],
            canvas |-> [width |-> 1, height |-> 1],
            imageSize |-> [x |-> 0, y |-> 0],
            mosaicDimensions |-> [x |-> 0, y |-> 0],
            offset |-> [x |-> 0, y |-> 0],
            drawn |-> {}]

IdleCalls == IdleQuant /\ IdlePixelMap /\ IdleGeometry

InitLoader ==
    /\ \E a \in ItemLists, lim \in 1..MaxLimit : dl = downloadLimitedItems(a, lim)
    /\ IdleCreate
    /\ IdleCalls

FetchSucceeds ==
    /\ \E idx \in dl.pending :
          dl' = iteratorCallback(dl, idx, Null, Fetched(dl.arr[idx + 1]))
    /\ UNCHANGED <<canvas, pass, fileInput, quant, pm, geom>>

FetchFails ==
    /\ \E idx \in dl.pending, err \in Errors :
          dl' = iteratorCallback(dl, idx, err, Undefined)
    /\ UNCHANGED <<canvas, pass, fileInput, quant, pm, geom>>

NextLoader == FetchSucceeds \/ FetchFails

SpecLoader == InitLoader /\ [][NextLoader]_vars

(***************************************************************************)
(* Properties of the loader (SpecLoader).                                  *)
(***************************************************************************)
Failures(d) == {k \in 1..Len(d.replies) : Truthy(d.replies[k].err)}
HasFailure(d) == Failures(d) # {}
FirstFailure(d) == CHOOSE k \in Failures(d) : \A m \in Failures(d) : k <= m
FirstError(d) == d.replies[FirstFailure(d)].err
RunOver(d) == d.pending = {}

\* C1: at every moment of a run the number of fetches that were started and
\* have not called back yet is at most limit.
C1_ConcurrencyBound == Cardinality(dl.pending) <= dl.limit

\* every slot taken, an item still waiting, and a slot already reused
C1_Witness ==
    /\ Cardinality(dl.pending) = dl.limit
    /\ dl.i < Len(dl.arr)
    /\ dl.complete > 0

\* C2: the final callback is applied at most once; when a fetch has failed
\* it was applied to the error of the first failure alone; when the run is
\* over without a failure it was applied to (null, results); before that,
\* without a failure, it was not applied at all.  Attempts after the first
\* leave the record of calls as it is.
C2_CallbackOnce ==
    /\ Len(dl.cbLog) <= 1
    /\ HasFailure(dl) => dl.cbLog = << <<FirstError(dl)>> >>
    /\ (~HasFailure(dl) /\ RunOver(dl)) => dl.cbLog = << <<Null, dl.results>> >>
    /\ (~HasFailure(dl) /\ ~RunOver(dl)) => dl.cbLog = <<>>

\* the run is over, the wrapped callback was attempted again after a failure
C2_Witness ==
    /\ RunOver(dl)
    /\ dl.attempts >= 2
    /\ Len(dl.cbLog) = 1

\* C3: when the final callback is given a results array, the array has one
\* slot per item and slot j holds what the fetch of arr[j] delivered.
C3_ResultsInOrder ==
    \A c \in 1..Len(dl.cbLog) :
        Len(dl.cbLog[c]) = 2 =>
            LET res == dl.cbLog[c][2]
            IN  /\ Len(res) = Len(dl.arr)
                /\ \A j \in 1..Len(dl.arr) :
                      res[j] = Fetched(dl.arr[j]) /\ res[j] # Null

\* success of a batch of different items whose fetches completed in another
\* order than they were started
C3_Witness ==
    /\ Len(dl.cbLog) = 1
    /\ Len(dl.cbLog[1]) = 2
    /\ Len(dl.arr) >= 2
    /\ dl.arr[1] # dl.arr[2]
    /\ \E k \in 1..Len(dl.replies) : dl.replies[k].idx # k - 1

\* C4: from the first failing callback on no further item is started, the
\* final callback has received the first error and nothing else, and it is
\* never given a results array, also when fetches in flight succeed later.
C4_FailFast ==
    /\ [](HasFailure(dl) =>
            /\ dl.cbLog = << <<FirstError(dl)>> >>
            /\ dl.aborted)
    /\ [][HasFailure(dl') => dl'.started = dl.started]_vars

\* a fetch succeeded after the failure while an item was still unstarted
C4_Witness ==
    /\ HasFailure(dl)
    /\ \E k \in 1..Len(dl.replies) :
          k > FirstFailure(dl) /\ ~Truthy(dl.replies[k].err)
    /\ dl.i < Len(dl.arr)

\* C18: the items are started in input order, and while no fetch has failed
\* the number of fetches in flight is min(limit, items not yet completed)
\* after every completion: a freed slot is refilled at once.
C18_FifoTopUp ==
    /\ dl.started = [k \in 1..dl.i |-> k - 1]
    /\ ~HasFailure(dl) =>
          Cardinality(dl.pending) =
              (IF dl.limit < Len(dl.arr) - dl.complete
               THEN dl.limit ELSE Len(dl.arr) - dl.complete)

\* the last item took a slot that a completed fetch had freed, and the list
\* is longer than the limit
C18_Witness ==
    /\ ~HasFailure(dl)
    /\ Len(dl.arr) > dl.limit
    /\ dl.i = Len(dl.arr)
    /\ dl.complete = Len(dl.arr) - dl.limit
    /\ Cardinality(dl.pending) = dl.limit

(***************************************************************************)
(* Mosaic.prototype.create.  A pass is one invocation; its record holds    *)
(* the variables of the closures of create:                                *)
(*   decoding    getImageFromFile(file) has not resolved yet               *)
(*   quantizing  the pixel buffer was posted to the worker                 *)
(*   loading     downloadLimitedItems was called                           *)
(* offset, dx and dy are in half pixels (offset = (canvas - imageSize) / 2 *)
(* need not be an integer).  drawn is the list of drawImage calls, failed  *)
(* the fetches (indices into dl.arr) whose image raised an error event.    *)
(***************************************************************************)
MaxPasses == 2     \* create invocations in SpecCreate

Files == {[width |-> 1, height |-> 2], [width |-> 2, height |-> 1]}
Containers == {[width |-> 80, height |-> 108]}
Pixels == {<<0, 0, 0>>, <<255, 255, 255>>}
\* the colors argument of create as the code observes it: whether it is falsy
\* (0, '', undefined) and its numeric value; '0' is truthy with value 0
PaletteArgs == {[falsy |-> FALSE, n |-> 2]}
ZeroArgs == {[falsy |-> FALSE, n |-> 0],
             [falsy |-> TRUE, n |-> 0],
             [falsy |-> FALSE, n |-> -1]}

Image(color) == [src |-> Fetched(color), complete |-> TRUE]

\* create up to getImageFromFile(file) (lines 236-242)
create(file, colorsArg) ==
    [phase            |-> "decoding",
     file             |-> file,
     colorsArg        |-> colorsArg,
     colors           |-> IF colorsArg.falsy THEN DefaultColors ELSE colorsArg.n,
     imageSize        |-> [x |-> 0, y |-> 0],
     mosaicDimensions |-> [x |-> 0, y |-> 0],
     img              |-> <<>>,
     pixelMap         |-> <<>>,
     completeTiles    |-> <<>>,
     currentRowIndex  |-> 0,
     currentRow       |-> <<>>,
     offset           |-> [x |-> 0, y |-> 0],
     dl               |-> newLoader(<<>>, TileLimit),
     drawn            |-> <<>>,
     failed           |-> {}]

\* context.drawImage(completeTiles[pixel.color], offset.x + ..., offset.y + ...);
\* completeTiles[pixel.color] is undefined for a color that has not loaded
drawImage(ps, pixel) ==
    [image |-> IF pixel.color \in DOMAIN ps.completeTiles
               THEN ps.completeTiles[pixel.color]
               ELSE [src |-> Undefined, complete |-> FALSE],
     dx    |-> ps.offset.x + (pixel.x - 1) * TILE_WIDTH * 2,
     dy    |-> ps.offset.y + (pixel.y - 1) * TILE_HEIGHT * 2,
     x     |-> pixel.x,
     y     |-> pixel.y]

\* the row is drawn: currentRowIndex++, the next row is looked up and, unless
\* it is empty, checked in turn (lines 277-285)
RECURSIVE renderCompleteRows_skip(_)
nextRow_skip(ps) ==
    LET next == [ps EXCEPT
                    !.currentRowIndex = @ + 1,
                    !.currentRow = findCurrentRow(ps.pixelMap, ps.currentRowIndex + 1)]
    IN  IF Len(next.currentRow) = 0 THEN next ELSE renderCompleteRows_skip(next)

\* a variant that gives up on a row that is not downloaded and goes on
renderCompleteRows_skip(ps) ==
    IF ~currentRowDownloaded(ps.currentRow, ps.completeTiles)
    THEN Call(nextRow_skip, ps)
    ELSE Call(nextRow_skip,
              [ps EXCEPT !.drawn = @ \o [k \in 1..Len(ps.currentRow) |->
                                            drawImage(ps, ps.currentRow[k])]])

RECURSIVE renderCompleteRows(_)
nextRow(ps) ==
    LET next == [ps EXCEPT
                    !.currentRowIndex = @ + 1,
                    !.currentRow = findCurrentRow(ps.pixelMap, ps.currentRowIndex + 1)]
    IN  IF Len(next.currentRow) = 0 THEN next ELSE renderCompleteRows(next)

renderCompleteRows(ps) ==
    IF ~currentRowDownloaded(ps.currentRow, ps.completeTiles)
    THEN ps
    ELSE Call(nextRow,
              [ps EXCEPT !.drawn = @ \o [k \in 1..Len(ps.currentRow) |->
                                            drawImage(ps, ps.currentRow[k])]])

\* the final callback of the loader, function () { renderCompleteRows() }, runs
\* when the step from before to after applied it
finalCallback(before, after) ==
    IF Len(after.dl.cbLog) > Len(before.dl.cbLog)
    THEN renderCompleteRows(after)
    ELSE after

\* the first .then of create (lines 243-247) and getPixelMap up to
\* postMessage; data is what getImageData reads from the scaled drawing
imageLoaded(ps, cv, data) ==
    [ps EXCEPT !.phase = "quantizing",
               !.imageSize = getSize(ps.file, cv),
               !.mosaicDimensions = getDimensions(getSize(ps.file, cv)),
               !.img = data]

\* the worker's reply, the .then of getPixelMap and the second .then of create
\* (lines 248-299)
pixelMapReady(ps, cv) ==
    LET pixelMap == getPixelMap(ps.mosaicDimensions, getColorMap(ps.img, ps.colors))
        uniqueMap == filterUnique(pixelMap)
        uniqueColors == [k \in 1..Len(uniqueMap) |-> uniqueMap[k].color]
        ready == [ps EXCEPT
                    !.phase = "loading",
                    !.pixelMap = pixelMap,
                    !.currentRowIndex = 1,
                    !.currentRow = findCurrentRow(pixelMap, 1),
                    !.offset = [x |-> cv.width - ps.imageSize.x,
                                y |-> cv.height - ps.imageSize.y]]
        loading == [ready EXCEPT !.dl = downloadLimitedItems(uniqueColors, TileLimit)]
    IN  Call2(finalCallback, ready, loading)

\* image.onload of the iterator (lines 291-295) for the fetch of item idx
tileLoaded(ps, idx) ==
    LET color == ps.dl.arr[idx + 1]
        stored == [ps EXCEPT !.completeTiles = (color :> Image(color)) @@ @]
        replied == [stored EXCEPT
                      !.dl = iteratorCallback(@, idx, False, Image(color).src)]
    IN  Call(renderCompleteRows, Call2(finalCallback, stored, replied))

\* the drawImage calls of pass p that the step from before to after added
NewTiles(p, before, after) ==
    {[pass |-> p, dx |-> after.drawn[k].dx, dy |-> after.drawn[k].dy,
      src |-> after.drawn[k].image.src] :
        k \in (Len(before.drawn) + 1)..Len(after.drawn)}

\* Client.prototype.renderCanvas: setting width and height clears the canvas
renderCanvas(container) ==
    [width  |-> container.width - PaddingX,
     height |-> container.height - PaddingY,
     tiles  |-> {}]

(***************************************************************************)
(* SpecCreate                                                              *)
(***************************************************************************)
IdleLoader == dl = newLoader(<<>>, 1)

InitCreate ==
    /\ canvas = [width |-> 300, height |-> 150, tiles |-> {}]
    /\ pass = <<>>
    /\ fileInput = <<>>
    /\ IdleLoader
    /\ IdleCalls

\* Client.prototype.onFileChange with an image file: renderCanvas(), then
\* render(file), i.e. create with its clearRect; args are the values
\* this.colors.value may have
FileChange(args) ==
    /\ Len(pass) < MaxPasses
    /\ \E file \in Files, container \in Containers, colorsArg \in args :
          /\ fileInput' = <<file>>
          /\ canvas' = renderCanvas(container)
          /\ pass' = Append(pass, create(file, colorsArg))
    /\ UNCHANGED <<dl, quant, pm, geom>>

\* the timer of window.onresize: renderCanvas(), then onFileChange(fileInput)
Resize(args) ==
    /\ Len(pass) < MaxPasses
    /\ fileInput # <<>>
    /\ \E container \in Containers, colorsArg \in args :
          /\ canvas' = renderCanvas(container)
          /\ pass' = Append(pass, create(fileInput[1], colorsArg))
    /\ UNCHANGED <<dl, fileInput, quant, pm, geom>>

OnFileChange == FileChange(PaletteArgs)
OnResize == Resize(PaletteArgs)

ImageLoaded ==
    /\ \E p \in 1..Len(pass) :
          /\ pass[p].phase = "decoding"
          /\ LET dims == getDimensions(getSize(pass[p].file, canvas))
             IN  \E data \in [1..(dims.x * dims.y) -> Pixels] :
                    pass' = [pass EXCEPT ![p] = imageLoaded(@, canvas, data)]
    /\ UNCHANGED <<dl, canvas, fileInput, quant, pm, geom>>

WorkerReply ==
    /\ \E p \in 1..Len(pass) :
          /\ pass[p].phase = "quantizing"
          /\ \E after \in {pixelMapReady(pass[p], canvas)} :
                 /\ pass' = [pass EXCEPT ![p] = after]
                 /\ canvas' = [canvas EXCEPT !.tiles = @ \cup NewTiles(p, pass[p], after)]
    /\ UNCHANGED <<dl, fileInput, quant, pm, geom>>

TileLoaded ==
    /\ \E p \in 1..Len(pass) :
          /\ pass[p].phase = "loading"
          /\ \E idx \in pass[p].dl.pending \ pass[p].failed :
                \E after \in {tileLoaded(pass[p], idx)} :
                    /\ pass' = [pass EXCEPT ![p] = after]
                    /\ canvas' = [canvas EXCEPT !.tiles = @ \cup NewTiles(p, pass[p], after)]
    /\ UNCHANGED <<dl, fileInput, quant, pm, geom>>

NextCreate == OnFileChange \/ OnResize \/ ImageLoaded \/ WorkerReply \/ TileLoaded

SpecCreate == InitCreate /\ [][NextCreate]_vars

\* every started tile fetch eventually loads
SpecCreateFair == SpecCreate /\ WF_vars(TileLoaded)

\* the error event of the image of fetch idx: the iterator sets image.onload
\* only (lines 288-296), so no handler runs and the image never loads
TileFails ==
    /\ \E p \in 1..Len(pass) :
          /\ pass[p].phase = "loading"
          /\ \E idx \in pass[p].dl.pending \ pass[p].failed :
                pass' = [pass EXCEPT ![p].failed = @ \cup {idx}]
    /\ UNCHANGED <<dl, canvas, fileInput, quant, pm, geom>>

NextFetchError ==
    OnFileChange \/ OnResize \/ ImageLoaded \/ WorkerReply \/ TileLoaded \/ TileFails

\* the client with tile fetches that may fail
SpecFetchError == InitCreate /\ [][NextFetchError]_vars

\* the same client with a colors value that is zero, empty or negative
OnFileChangeZero == FileChange(ZeroArgs)
OnResizeZero == Resize(ZeroArgs)

NextPalette ==
    OnFileChangeZero \/ OnResizeZero \/ ImageLoaded \/ WorkerReply \/ TileLoaded

SpecPalette == InitCreate /\ [][NextPalette]_vars

(***************************************************************************)
(* SpecQuant: rgbToHex applied to one pixel.                               *)
(***************************************************************************)
MaxColors == 3     \* largest palette size in SpecQuant

Channels == {0, 127, 128, 255}
QuantColors == 1..MaxColors

InitQuant ==
    /\ \E r \in Channels, g \in Channels, b \in Channels, colors \in QuantColors :
          quant = [r |-> r, g |-> g, b |-> b, colors |-> colors, key |-> ""]
    /\ IdleLoader
    /\ IdleCreate
    /\ IdlePixelMap
    /\ IdleGeometry

Quantize ==
    /\ quant.key = ""
    /\ quant' = [quant EXCEPT !.key = rgbToHex(quant.r, quant.g, quant.b, quant.colors)]
    /\ UNCHANGED <<dl, canvas, pass, fileInput, pm, geom>>

NextQuant == Quantize

SpecQuant == InitQuant /\ [][NextQuant]_vars

(***************************************************************************)
(* SpecPixelMap: one call of getPixelMap(size, image, colors), with the    *)
(* worker script as a second process.  toWorker and toMain are the         *)
(* messages in flight; window.Worker exists or not.                        *)
(***************************************************************************)
MaxGrid == 2       \* largest side of the grid in SpecPixelMap

PaletteSizes == {2, 16}

\* Mosaic.prototype.getColorMap.  Without window.Worker the branch declares
\* var MosaicWorker, which hoisting makes a local that is undefined when
\* new MosaicWorker() is evaluated: a TypeError.
Mosaic_getColorMap(p) ==
    IF p.hasWorker
    THEN [p EXCEPT !.phase = "waiting",
                   !.toWorker = <<[img |-> p.img, colors |-> p.colors]>>]
    ELSE [p EXCEPT !.phase = "TypeError"]

\* onmessage of the worker script: getColorMap, postMessage, close
onmessage(p) ==
    [p EXCEPT !.toWorker = <<>>,
              !.toMain = <<getColorMap(p.toWorker[1].img, p.toWorker[1].colors)>>]

\* mosaicWorker.onmessage resolves the promise with e.data, and the .then of
\* getPixelMap maps it
resolve(p) ==
    [p EXCEPT !.phase = "resolved",
              !.toMain = <<>>,
              !.tileColors = p.toMain[1],
              !.pixelMap = getPixelMap(p.size, p.toMain[1])]

InitPixelMap ==
    /\ \E x \in 1..MaxGrid, y \in 1..MaxGrid :
          \E img \in [1..(x * y) -> Pixels], colors \in PaletteSizes,
             hasWorker \in BOOLEAN :
              pm = [phase |-> "called", size |-> [x |-> x, y |-> y], img |-> img,
                    colors |-> colors, hasWorker |-> hasWorker,
                    toWorker |-> <<>>, toMain |-> <<>>,
                    tileColors |-> <<>>, pixelMap |-> <<>>]
    /\ IdleLoader
    /\ IdleCreate
    /\ IdleQuant
    /\ IdleGeometry

GetColorMap ==
    /\ pm.phase = "called"
    /\ pm' = Mosaic_getColorMap(pm)
    /\ UNCHANGED <<dl, canvas, pass, fileInput, quant, geom>>

WorkerOnMessage ==
    /\ pm.toWorker # <<>>
    /\ pm' = onmessage(pm)
    /\ UNCHANGED <<dl, canvas, pass, fileInput, quant, geom>>

Resolve ==
    /\ pm.phase = "waiting"
    /\ pm.toMain # <<>>
    /\ pm' = resolve(pm)
    /\ UNCHANGED <<dl, canvas, pass, fileInput, quant, geom>>

NextPixelMap == GetColorMap \/ WorkerOnMessage \/ Resolve

SpecPixelMap == InitPixelMap /\ [][NextPixelMap]_vars

(***************************************************************************)
(* SpecGeometry: the sizes create derives from the image and the canvas    *)
(* (lines 244-245), and the offset and the drawImage positions of the grid *)
(* (lines 259-275).  offset, dx and dy are in half pixels.                 *)
(***************************************************************************)
MaxImage == 7      \* largest side of the image in SpecGeometry
MaxSurface == 35   \* largest side of the canvas in SpecGeometry

\* imageSize and mosaicDimensions; getPixelMap's getImageData(0, 0, size.x,
\* size.y) throws an IndexSizeError when a side of the grid is 0
sizeImage(g) ==
    LET imageSize == getSize(g.image, g.canvas)
        mosaicDimensions == getDimensions(imageSize)
    IN  [g EXCEPT !.imageSize = imageSize,
                  !.mosaicDimensions = mosaicDimensions,
                  !.phase = IF mosaicDimensions.x = 0 \/ mosaicDimensions.y = 0
                            THEN "IndexSizeError" ELSE "sized"]

\* the offset and the drawImage call of every entry of the pixel map
drawTiles(g) ==
    LET sized == [g EXCEPT !.offset = [x |-> g.canvas.width - g.imageSize.x,
                                       y |-> g.canvas.height - g.imageSize.y]]
        ps == [offset |-> sized.offset, completeTiles |-> <<>>]
    IN  [sized EXCEPT
            !.phase = "drawn",
            !.drawn = {drawImage(ps, [color |-> "", x |-> x, y |-> y]) :
                          x \in 1..g.mosaicDimensions.x,
                          y \in 1..g.mosaicDimensions.y}]

InitGeometry ==
    /\ \E w \in 1..MaxImage, h \in 1..MaxImage,
          cw \in 1..MaxSurface, ch \in 1..MaxSurface :
          geom = [phase |-> "decoded",
                  image |-> [width |-> w, height |-> h],
                  canvas |-> [width |-> cw, height |-> ch],
                  imageSize |-> [x |-> 0, y |-> 0],
                  mosaicDimensions |-> [x |-> 0, y |-> 0],
                  offset |-> [x |-> 0, y |-> 0],
                  drawn |-> {}]
    /\ IdleLoader
    /\ IdleCreate
    /\ IdleQuant
    /\ IdlePixelMap

SizeImage ==
    /\ geom.phase = "decoded"
    /\ geom' = sizeImage(geom)
    /\ UNCHANGED <<dl, canvas, pass, fileInput, quant, pm>>

DrawTiles ==
    /\ geom.phase = "sized"
    /\ geom' = drawTiles(geom)
    /\ UNCHANGED <<dl, canvas, pass, fileInput, quant, pm>>

NextGeometry == SizeImage \/ DrawTiles

SpecGeometry == InitGeometry /\ [][NextGeometry]_vars

(***************************************************************************)
(* Properties of create (SpecCreate, SpecCreateFair, SpecPalette) and of   *)
(* the quantizer (SpecQuant).                                              *)
(***************************************************************************)
Colors(pixelMap) == {pixelMap[k].color : k \in 1..Len(pixelMap)}
Loading(p) == p <= Len(pass) /\ pass[p].phase = "loading"
Done(p) == Loading(p) /\ Len(pass[p].currentRow) = 0

\* C5: the key list create hands to the loader holds every color of the pixel
\* map once, so that one fetch is started per distinct key.
C5_OneFetchPerKey ==
    \A p \in 1..Len(pass) :
        pass[p].phase = "loading" =>
            LET keys == pass[p].dl.arr
            IN  /\ {keys[k] : k \in 1..Len(keys)} = Colors(pass[p].pixelMap)
                /\ \A j, k \in 1..Len(keys) : j # k => keys[j] # keys[k]

\* C6: the drawImage calls of a pass come in non-decreasing row order, and
\* when an entry of a row is drawn every entry of every earlier row was
\* drawn before it.
C6_RowOrder ==
    \A p \in 1..Len(pass) :
        LET d == pass[p].drawn
        IN  /\ \A k, m \in 1..Len(d) : k < m => d[k].y <= d[m].y
            /\ \A k \in 1..Len(d) : \A e \in 1..Len(pass[p].pixelMap) :
                  pass[p].pixelMap[e].y < d[k].y =>
                      \E m \in 1..(k - 1) :
                          /\ d[m].x = pass[p].pixelMap[e].x
                          /\ d[m].y = pass[p].pixelMap[e].y

\* both rows of a two-row pass are drawn although the tile of the second row
\* arrived first
C6_Witness ==
    \E p \in 1..Len(pass) :
        /\ pass[p].mosaicDimensions.y = 2
        /\ Len(pass[p].drawn) = 2
        /\ pass[p].pixelMap[1].color # pass[p].pixelMap[2].color
        /\ pass[p].dl.replies[1].idx = 1

PaintedOnce(ps) ==
    /\ Len(ps.drawn) = ps.mosaicDimensions.x * ps.mosaicDimensions.y
    /\ \A x \in 1..ps.mosaicDimensions.x, y \in 1..ps.mosaicDimensions.y :
          Cardinality({k \in 1..Len(ps.drawn) :
                          ps.drawn[k].x = x /\ ps.drawn[k].y = y}) = 1
    /\ \A e \in 1..Len(ps.pixelMap) :
          \E k \in 1..Len(ps.drawn) :
              /\ ps.drawn[k].x = ps.pixelMap[e].x
              /\ ps.drawn[k].y = ps.pixelMap[e].y
              /\ ps.drawn[k].image = Image(ps.pixelMap[e].color)

\* C7: when every started tile fetch loads, every pass that began loading is
\* eventually done and stays so, and whenever a pass is done each grid cell
\* was drawn exactly once, with the tile of its entry.
C7_AllPainted ==
    /\ <>[](\A p \in 1..Len(pass) : Loading(p) => Done(p))
    /\ [](\A p \in 1..Len(pass) : Done(p) => PaintedOnce(pass[p]))

\* a pass with a row of two entries is done
C7_Witness ==
    \E p \in 1..Len(pass) :
        /\ Done(p)
        /\ pass[p].mosaicDimensions.x = 2
        /\ Len(pass[p].drawn) = 2

\* C8: every tile on the canvas was drawn by the newest pass; an earlier pass
\* draws nothing after a newer one has resized and cleared the canvas.
C8_NoStalePaint ==
    \A t \in canvas.tiles : t.pass = Len(pass)

\* C9: a palette of n >= 1 colors leaves at most n values per channel.
C9_PaletteBound ==
    (quant.key # "" /\ quant.colors >= 1) =>
        Cardinality({reduceChannel(c, quant.colors) : c \in 0..255}) <= quant.colors

\* C10: a pass whose palette size is zero or negative starts no tile fetch
\* and draws nothing.
C10_InvalidPalette ==
    \A p \in 1..Len(pass) :
        (pass[p].colorsArg.falsy \/ pass[p].colorsArg.n <= 0) =>
            /\ pass[p].dl.started = <<>>
            /\ pass[p].drawn = <<>>

\* C11: a failed tile fetch is reported to the loader: its slot is resolved,
\* the loader has aborted and its completion callback was called once, with
\* an error.
C11_FailureReported ==
    \A p \in 1..Len(pass) : \A idx \in pass[p].failed :
        /\ idx \notin pass[p].dl.pending
        /\ pass[p].dl.aborted
        /\ Len(pass[p].dl.cbLog) = 1
        /\ Truthy(pass[p].dl.cbLog[1].err)

\* the entry of pixelMap at column x of row y
EntryAt(ps, x, y) == ps.pixelMap[(y - 1) * ps.mosaicDimensions.x + x]

\* C15: every drawImage call of a pass drew the loaded tile that completeTiles
\* holds for the color of its entry, and the row that is waiting always has an
\* entry whose tile has not loaded: a row is drawn by the load event that
\* completes it.
C15_PaintLoadedRows ==
    \A p \in 1..Len(pass) :
        /\ \A k \in 1..Len(pass[p].drawn) :
              LET d == pass[p].drawn[k]
                  color == EntryAt(pass[p], d.x, d.y).color
              IN  /\ d.image.complete
                  /\ color \in DOMAIN pass[p].completeTiles
                  /\ d.image = pass[p].completeTiles[color]
        /\ Len(pass[p].currentRow) > 0 =>
              \E k \in 1..Len(pass[p].currentRow) :
                  pass[p].currentRow[k].color \notin DOMAIN pass[p].completeTiles

\* a row of two colors was drawn once both tiles had loaded, and one waits
\* with one of its two tiles loaded
C15_Witness ==
    /\ \E p \in 1..Len(pass) :
          /\ Loading(p)
          /\ pass[p].mosaicDimensions.x = 2
          /\ pass[p].pixelMap[1].color # pass[p].pixelMap[2].color
          /\ Len(pass[p].drawn) = 2
          /\ Len(pass[p].dl.replies) = 2
    /\ \E p \in 1..Len(pass) :
          /\ Loading(p)
          /\ pass[p].mosaicDimensions.x = 2
          /\ Len(pass[p].drawn) = 0
          /\ Cardinality(DOMAIN pass[p].completeTiles) = 1

\* C16: currentRowIndex starts at 1, never decreases and stops at the first
\* row index that no entry of the pixel map has; once a pass is done, nothing
\* more is drawn.
C16_IndexTerminal ==
    /\ [](\A p \in 1..Len(pass) :
             Loading(p) =>
                /\ pass[p].currentRowIndex >= 1
                /\ pass[p].currentRowIndex <= pass[p].mosaicDimensions.y + 1)
    /\ [][\A p \in 1..Len(pass) :
             /\ pass'[p].currentRowIndex >= pass[p].currentRowIndex
             /\ Done(p) => /\ pass'[p].drawn = pass[p].drawn
                           /\ pass'[p].currentRowIndex = pass[p].currentRowIndex]_vars

\* C17: when a started fetch never completes, the first row with an entry of
\* its color is not drawn, nor is any row after it.
C17_StalledRow ==
    \A p \in 1..Len(pass) : \A idx \in pass[p].failed :
        LET color == pass[p].dl.arr[idx + 1]
            rows == {pass[p].pixelMap[e].y : e \in {k \in 1..Len(pass[p].pixelMap) :
                                                     pass[p].pixelMap[k].color = color}}
        IN  \A k \in 1..Len(pass[p].drawn) : \E y \in rows :
                pass[p].drawn[k].y < y /\ \A z \in rows : y <= z

\* C12: the pixel map of a grid of x by y cells has x * y entries, every cell
\* is in exactly one entry, and the entries are in row-major order.
C12_PixelMapComplete ==
    pm.phase = "resolved" =>
        /\ Len(pm.pixelMap) = pm.size.x * pm.size.y
        /\ \A x \in 1..pm.size.x, y \in 1..pm.size.y :
              Cardinality({k \in 1..Len(pm.pixelMap) :
                              pm.pixelMap[k].x = x /\ pm.pixelMap[k].y = y}) = 1
        /\ \A k \in 1..Len(pm.pixelMap), m \in 1..Len(pm.pixelMap) :
              k < m => \/ pm.pixelMap[k].y < pm.pixelMap[m].y
                       \/ /\ pm.pixelMap[k].y = pm.pixelMap[m].y
                          /\ pm.pixelMap[k].x < pm.pixelMap[m].x

\* the pixel map of a grid of two rows of two cells
C12_Witness ==
    /\ pm.phase = "resolved"
    /\ pm.size = [x |-> 2, y |-> 2]
    /\ Len(pm.pixelMap) = 4

\* C13: with or without window.Worker, getColorMap completes, with the key
\* list the quantizer computes for the pixel buffer.
C13_PathsAgree ==
    /\ pm.phase # "TypeError"
    /\ pm.phase = "resolved" => pm.tileColors = getColorMap(pm.img, pm.colors)

\* the largest size of the image's aspect ratio that fits the canvas
LargestFit(image, cv) ==
    IF cv.width * image.height < cv.height * image.width
    THEN [x |-> cv.width, y |-> (cv.width * image.height) \div image.width]
    ELSE [x |-> (cv.height * image.width) \div image.height, y |-> cv.height]

\* C14: the size getSize returns fits the canvas, has one side equal to the
\* canvas's, and is the largest fit: its other side is the floor of the
\* proportional value.
C14_LargestFit ==
    geom.phase # "decoded" =>
        /\ geom.imageSize.x <= geom.canvas.width
        /\ geom.imageSize.y <= geom.canvas.height
        /\ \/ geom.imageSize.x = geom.canvas.width
           \/ geom.imageSize.y = geom.canvas.height
        /\ geom.imageSize = LargestFit(geom.image, geom.canvas)

\* C19: both sides of the size getSize returns are positive, and so are both
\* sides of the grid.
C19_PositiveSize ==
    geom.phase # "decoded" =>
        /\ geom.imageSize.x > 0
        /\ geom.imageSize.y > 0
        /\ geom.mosaicDimensions.x >= 1
        /\ geom.mosaicDimensions.y >= 1

\* C20, as stated: every tile drawn lies inside the canvas.
C20_TilesInside ==
    \A t \in geom.drawn :
        /\ 0 <= t.dx
        /\ t.dx + 2 * TILE_WIDTH <= 2 * geom.canvas.width
        /\ 0 <= t.dy
        /\ t.dy + 2 * TILE_HEIGHT <= 2 * geom.canvas.height

\* C20: every tile drawn has its top left corner inside the scaled image,
\* which is centred inside the canvas; along an axis on which the scaled
\* size is a multiple of the tile size the tile lies inside the canvas, and
\* along the other it may overhang the image by less than one tile.
C20_TileOriginInside ==
    \A t \in geom.drawn :
        /\ 0 <= geom.offset.x
        /\ geom.offset.x <= t.dx
        /\ t.dx < geom.offset.x + 2 * geom.imageSize.x
        /\ geom.offset.x + 2 * geom.imageSize.x <= 2 * geom.canvas.width
        /\ 0 <= geom.offset.y
        /\ geom.offset.y <= t.dy
        /\ t.dy < geom.offset.y + 2 * geom.imageSize.y
        /\ geom.offset.y + 2 * geom.imageSize.y <= 2 * geom.canvas.height
        /\ geom.imageSize.x % TILE_WIDTH = 0 =>
              t.dx + 2 * TILE_WIDTH <= 2 * geom.canvas.width
        /\ geom.imageSize.y % TILE_HEIGHT = 0 =>
              t.dy + 2 * TILE_HEIGHT <= 2 * geom.canvas.height

\* a scaled image of 20 by 20 pixels that fills its canvas: the third tile of
\* a row starts at 16 and ends at 24
C20_Witness ==
    /\ geom.phase = "drawn"
    /\ geom.imageSize = [x |-> 20, y |-> 20]
    /\ geom.canvas.width = 20
    /\ \E t \in geom.drawn :
          t.dx = 4 * TILE_WIDTH /\ t.dx + 2 * TILE_WIDTH > 2 * geom.canvas.width

====
